---- MODULE Spec2Model ----
(***************************************************************************)
(* Model of VEEAM-Task.py: one-way mirroring of a source folder onto a     *)
(* replica folder (sync_folders), repeated by a sched.scheduler event that *)
(* re-enters itself (periodic_sync).                                       *)
(*                                                                         *)
(* The file system is one map from the absolute paths that exist to what   *)
(* is stored there. A path is a sequence of names whose first element is   *)
(* the root folder ("source" or "replica"); os.path.join appends a name.   *)
(***************************************************************************)
EXTENDS Integers, Sequences, FiniteSets, TLC

VARIABLES
    fs,             \* the file system: existing path -> DIR | content of a file
    mounted,        \* TRUE while the source folder is reachable (os.path.exists)
    log,            \* the lines written by logging.error / logging.info, in order
    stack,          \* the active sync_folders calls, innermost last
    mode,           \* "idle": in scheduler.run, "tick": in periodic_sync, "crashed"
    fault,          \* the uncaught exception that ended the process, or NoFault
    queue,          \* the scheduler's pending events (their due times), in order
    clock,          \* time.time(), measured from the start of the latest tick
    sync_interval,  \* args.sync_interval
    tick,           \* number of periodic_sync calls started
    fs0,            \* history: the file system when the latest tick started
    log0,           \* history: Len(log) when the latest tick started
    app0,           \* history: Len(applied) when the latest tick started
    seen,           \* history: per tick, whether the source folder existed at line 67
    applied,        \* history: the file system operations that took effect, in order
    calls           \* history: the source folders of the sync_folders calls of the tick

vars == <<fs, mounted, log, stack, mode, fault, queue, clock, sync_interval,
          tick, fs0, log0, app0, seen, applied, calls>>

----------------------------------------------------------------------------
(* Bounds of the model *)

MaxDepth == 2       \* deepest entry of the initial trees, in names below the root
MaxEntries == 2     \* most entries in the initial source tree and replica tree
MaxTicks == 2       \* periodic_sync calls explored
MaxDur == 1         \* longest duration of one tick, in seconds
SchedEntries == 1   \* most entries of an initial tree where the scheduler is studied

Names == {"a", "b"}         \* entry names
Contents == {"x", "y"}      \* file contents
Intervals == {1}            \* sync_interval where sync_folders is studied
SchedIntervals == {-1, 0, 1, 2}     \* sync_interval where the scheduler is studied

NONE == "none"
DIR == "dir"

source_root == <<"source">>
replica_root == <<"replica">>

----------------------------------------------------------------------------
(* Paths *)

RECURSIVE RelUpTo(_)
RelUpTo(n) ==
    IF n = 0 THEN {<<>>}
    ELSE LET S == RelUpTo(n - 1)
         IN  S \cup {Append(q, m) : q \in {s \in S : Len(s) = n - 1}, m \in Names}

join(p, name) == Append(p, name)
dirname(p) == SubSeq(p, 1, Len(p) - 1)
basename(p) == p[Len(p)]
Rel(p) == SubSeq(p, 2, Len(p))
IsPrefix(p, q) == Len(p) <= Len(q) /\ SubSeq(q, 1, Len(p)) = p
UnderSource(p) == p[1] = "source"
UnderReplica(p) == p[1] = "replica"

----------------------------------------------------------------------------
(* The os / shutil primitives, on a file system f *)

Kind(f, p) == IF p \in DOMAIN f THEN f[p] ELSE NONE

exists(f, m, p) == Kind(f, p) # NONE /\ (UnderSource(p) => m)
isdir(f, m, p) == Kind(f, p) = DIR /\ (UnderSource(p) => m)
listdir(f, m, p) == {n \in Names : exists(f, m, join(p, n))}

write(f, p, c) == [q \in DOMAIN f \cup {p} |-> IF q = p THEN c ELSE f[q]]
makedirs(f, p) == write(f, p, DIR)
remove(f, p) == [q \in DOMAIN f \ {p} |-> f[q]]
\* variant: only the entry itself goes, what lies beneath it stays
rmtree_top(f, p) == remove(f, p)
rmtree(f, p) == [q \in {r \in DOMAIN f : ~IsPrefix(p, r)} |-> f[q]]

\* shutil.copy2(src, dst): a dst that is a directory receives the file under
\* the source's base name; the file is then opened for writing.
copy2_target(f, m, src, dst) ==
    IF isdir(f, m, dst) THEN join(dst, basename(src)) ELSE dst

\* open(target, 'wb') raises IsADirectoryError on a directory and
\* NotADirectoryError / FileNotFoundError when the parent is no directory.
copy2_error(f, m, src, dst) ==
    LET t == copy2_target(f, m, src, dst)
    IN  IF isdir(f, m, t) THEN "IsADirectoryError"
        ELSE IF ~isdir(f, m, dirname(t)) THEN "NotADirectoryError"
        ELSE "ok"

\* variant: the two arguments of the copy are exchanged
copy2_reversed(f, m, src, dst) ==
    IF dst \in DOMAIN f THEN write(f, src, f[dst]) ELSE remove(f, src)
copy2(f, m, src, dst) == write(f, copy2_target(f, m, src, dst), f[src])

\* os.makedirs(p) below an existing folder: mkdir fails when the parent is a file.
makedirs_error(f, m, p) ==
    IF Len(p) > 1 /\ ~isdir(f, m, dirname(p)) THEN "NotADirectoryError" ELSE "ok"

\* os.listdir(p) raises NotADirectoryError on a file.
listdir_error(f, m, p) == IF isdir(f, m, p) THEN "ok" ELSE "NotADirectoryError"

----------------------------------------------------------------------------
(* Initial trees: every well-formed tree of at most MaxEntries entries *)

RECURSIVE EntrySets(_, _)
EntrySets(k, depth) ==
    IF k = 0 THEN {{}}
    ELSE LET P == EntrySets(k - 1, depth)
         IN  P \cup UNION {{E \cup {q} :
                                q \in {r \in RelUpTo(depth) \ {<<>>} :
                                         Len(r) = 1 \/ dirname(r) \in E}} :
                            E \in P}

\* the assignments of a kind to the entries of E: an entry with children is a folder
Trees(E) ==
    {t \in [E -> {DIR} \cup Contents] :
        \A q \in E : (\E r \in E : r # q /\ IsPrefix(q, r)) => t[q] = DIR}

InitialTrees == UNION {Trees(E) : E \in EntrySets(MaxEntries, MaxDepth)}
SchedTrees == UNION {Trees(E) : E \in EntrySets(SchedEntries, MaxDepth)}

\* the file system holding tree s under the source folder and tree r under the
\* replica folder; the replica folder itself exists iff haveReplica
MkFs(s, r, haveReplica) ==
    [p \in {source_root} \cup {source_root \o q : q \in DOMAIN s}
            \cup (IF haveReplica THEN {replica_root} ELSE {})
            \cup {replica_root \o q : q \in DOMAIN r} |->
        IF Len(p) = 1 THEN DIR
        ELSE IF UnderSource(p) THEN s[Rel(p)] ELSE r[Rel(p)]]

----------------------------------------------------------------------------
(* Log lines, frames, exceptions *)

Ev(op, path) == [op |-> op, path |-> path]

NoFault == [op |-> "none", path |-> <<>>, error |-> "none"]
Raise(op, path, error) == [op |-> op, path |-> path, error |-> error]

\* a call of sync_folders(source_folder, replica_folder, log_file) at line 67
Frame(source_folder, replica_folder) ==
    [source_folder |-> source_folder, replica_folder |-> replica_folder,
     pc |-> "start", source_files |-> {}, todo |-> {}]

Top == stack[Len(stack)]
Pop == SubSeq(stack, 1, Len(stack) - 1)
SetTop(fr) == [stack EXCEPT ![Len(stack)] = fr]
Running == mode = "tick" /\ stack # <<>>

\* sched.scheduler.enter(delay, ...): the event is queued at now + delay, in time order
RECURSIVE enterabs(_, _)
enterabs(q, t) ==
    IF q = <<>> THEN <<t>>
    ELSE IF t < Head(q) THEN <<t>> \o q
    ELSE <<Head(q)>> \o enterabs(Tail(q), t)

\* variant: the delay counts from the start of the tick, which is time 0
enter_from_start(q, now, delay) == enterabs(q, delay)
enter(q, now, delay) == enterabs(q, now + delay)

----------------------------------------------------------------------------
\* variant: line 143 enters the first event with a delay of sync_interval
InitOver_Delayed(trees, intervals) ==
    /\ \E s \in trees, r \in trees, h \in BOOLEAN :
          /\ (~h => DOMAIN r = {})
          /\ fs = MkFs(s, r, h)
    /\ mounted \in BOOLEAN
    /\ log = <<>>
    /\ stack = <<>>
    /\ mode = "idle"
    /\ fault = NoFault
    /\ sync_interval \in intervals
    /\ clock = 0
    /\ queue = enter(<<>>, 0, sync_interval)
    /\ tick = 0
    /\ fs0 = fs
    /\ log0 = 0
    /\ app0 = 0
    /\ seen = <<>>
    /\ applied = <<>>
    /\ calls = {}

\* the state when scheduler.run is called (line 146): the two folders hold trees
\* of `trees`, sync_interval is one of `intervals`, the first event is queued
InitOver(trees, intervals) ==
    /\ \E s \in trees, r \in trees, h \in BOOLEAN :
          /\ (~h => DOMAIN r = {})
          /\ fs = MkFs(s, r, h)
    /\ mounted \in BOOLEAN
    /\ log = <<>>
    /\ stack = <<>>
    /\ mode = "idle"
    /\ fault = NoFault
    /\ sync_interval \in intervals
    /\ clock = 0
    /\ queue = enter(<<>>, 0, 0)
    /\ tick = 0
    /\ fs0 = fs
    /\ log0 = 0
    /\ app0 = 0
    /\ seen = <<>>
    /\ applied = <<>>
    /\ calls = {}

Init == InitOver(InitialTrees, Intervals)
SchedInit == InitOver(SchedTrees, SchedIntervals)

----------------------------------------------------------------------------
(* sync_folders, one action per statement group of the innermost call *)

\* an exception nobody catches: it unwinds every sync_folders call, periodic_sync
\* and scheduler.run, and the process ends
Crash(op, path, error) ==
    /\ mode' = "crashed"
    /\ fault' = Raise(op, path, error)
    /\ stack' = <<>>

\* the error an operation ends with: its own, or one the environment causes
Failure(own) == IF own = "ok" THEN "PermissionError" ELSE own

\* variant: the test of line 95 is left out
Stale_All(listing, source_files) == listing
\* lines 93-95: the names of the replica listing that lines 96-101 remove
Stale(listing, source_files) == listing \ source_files

\* variant: the replica folder is created (lines 72-74) before the source
\* folder is looked at
SourceMissing_AfterCreate ==
    /\ Running /\ Top.pc = "start"
    /\ ~exists(fs, mounted, Top.source_folder)
    /\ LET absent == ~exists(fs, mounted, Top.replica_folder)
           created == IF absent
                      THEN Append(log, Ev("create-dir", Top.replica_folder))
                      ELSE log
       IN  /\ fs' = IF absent THEN makedirs(fs, Top.replica_folder) ELSE fs
           /\ log' = Append(created, Ev("error", Top.source_folder))
    /\ stack' = Pop
    /\ seen' = IF Len(stack) = 1 THEN Append(seen, FALSE) ELSE seen
    /\ UNCHANGED <<mounted, mode, fault, queue, clock, sync_interval,
                   tick, fs0, log0, app0, applied,
                   calls>>

\* lines 67-69
SourceMissing ==
    /\ Running /\ Top.pc = "start"
    /\ ~exists(fs, mounted, Top.source_folder)
    /\ log' = Append(log, Ev("error", Top.source_folder))
    /\ stack' = Pop
    /\ seen' = IF Len(stack) = 1 THEN Append(seen, FALSE) ELSE seen
    /\ UNCHANGED <<fs, mounted, mode, fault, queue, clock, sync_interval,
                   tick, fs0, log0, app0, applied,
                   calls>>

\* lines 72-77
EnsureReplica ==
    /\ Running /\ Top.pc = "start"
    /\ exists(fs, mounted, Top.source_folder)
    /\ LET absent == ~exists(fs, mounted, Top.replica_folder)
           names == listdir(fs, mounted, Top.source_folder)
       IN  /\ absent => makedirs_error(fs, mounted, Top.replica_folder) = "ok"
           /\ log' = IF absent
                     THEN Append(log, Ev("create-dir", Top.replica_folder))
                     ELSE log
           /\ fs' = IF absent THEN makedirs(fs, Top.replica_folder) ELSE fs
           /\ applied' = IF absent
                         THEN Append(applied, Ev("create-dir", Top.replica_folder))
                         ELSE applied
           /\ stack' = SetTop([Top EXCEPT !.pc = "copy",
                                          !.source_files = names,
                                          !.todo = names])
    /\ seen' = IF Len(stack) = 1 THEN Append(seen, TRUE) ELSE seen
    /\ UNCHANGED <<mounted, mode, fault, queue, clock, sync_interval,
                   tick, fs0, log0, app0,
                   calls>>

\* lines 72-74 when os.makedirs raises: the line was logged before the call
MakedirsRaises ==
    /\ Running /\ Top.pc = "start"
    /\ exists(fs, mounted, Top.source_folder)
    /\ ~exists(fs, mounted, Top.replica_folder)
    /\ log' = Append(log, Ev("create-dir", Top.replica_folder))
    /\ Crash("makedirs", Top.replica_folder,
             Failure(makedirs_error(fs, mounted, Top.replica_folder)))
    /\ seen' = IF Len(stack) = 1 THEN Append(seen, TRUE) ELSE seen
    /\ UNCHANGED <<fs, mounted, queue, clock, sync_interval,
                   tick, fs0, log0, app0, applied,
                   calls>>

\* variant: line 87 is not commented out, the caller logs the folder as well
Recurse_Logged ==
    /\ Running /\ Top.pc = "copy"
    /\ \E file_name \in Top.todo :
          LET source_path == join(Top.source_folder, file_name)
              replica_path == join(Top.replica_folder, file_name)
          IN  /\ isdir(fs, mounted, source_path)
              /\ log' = Append(log, Ev("create-dir", replica_path))
              /\ stack' = Append(SetTop([Top EXCEPT !.todo = @ \ {file_name}]),
                                 Frame(source_path, replica_path))
              /\ calls' = calls \cup {source_path}
    /\ UNCHANGED <<fs, mounted, mode, fault, queue, clock, sync_interval,
                   tick, fs0, log0, app0, seen, applied>>

\* variant: the loop of line 80 does not move on to the next entry after the
\* call of line 84
Recurse_Again ==
    /\ Running /\ Top.pc = "copy"
    /\ \E file_name \in Top.todo :
          LET source_path == join(Top.source_folder, file_name)
              replica_path == join(Top.replica_folder, file_name)
          IN  /\ isdir(fs, mounted, source_path)
              /\ stack' = Append(stack,
                                 Frame(source_path, replica_path))
              /\ calls' = calls \cup {source_path}
    /\ UNCHANGED <<fs, mounted, log, mode, fault, queue, clock, sync_interval,
                   tick, fs0, log0, app0, seen, applied>>

\* lines 80-84: the entry is a folder
Recurse ==
    /\ Running /\ Top.pc = "copy"
    /\ \E file_name \in Top.todo :
          LET source_path == join(Top.source_folder, file_name)
              replica_path == join(Top.replica_folder, file_name)
          IN  /\ isdir(fs, mounted, source_path)
              /\ stack' = Append(SetTop([Top EXCEPT !.todo = @ \ {file_name}]),
                                 Frame(source_path, replica_path))
              /\ calls' = calls \cup {source_path}
    /\ UNCHANGED <<fs, mounted, log, mode, fault, queue, clock, sync_interval,
                   tick, fs0, log0, app0, seen, applied>>

\* lines 80-83, 88-90: the entry is a file
CopyFile ==
    /\ Running /\ Top.pc = "copy"
    /\ \E file_name \in Top.todo :
          LET source_path == join(Top.source_folder, file_name)
              replica_path == join(Top.replica_folder, file_name)
          IN  /\ ~isdir(fs, mounted, source_path)
              /\ copy2_error(fs, mounted, source_path, replica_path) = "ok"
              /\ fs' = copy2(fs, mounted, source_path, replica_path)
              /\ log' = Append(log, Ev("copy-file", replica_path))
              /\ applied' = Append(applied,
                     Ev("copy-file",
                        copy2_target(fs, mounted, source_path, replica_path)))
              /\ stack' = SetTop([Top EXCEPT !.todo = @ \ {file_name}])
    /\ UNCHANGED <<mounted, mode, fault, queue, clock, sync_interval,
                   tick, fs0, log0, app0, seen,
                   calls>>

\* line 89 when shutil.copy2 raises
CopyRaises ==
    /\ Running /\ Top.pc = "copy"
    /\ \E file_name \in Top.todo :
          LET source_path == join(Top.source_folder, file_name)
              replica_path == join(Top.replica_folder, file_name)
          IN  /\ ~isdir(fs, mounted, source_path)
              /\ Crash("copy", replica_path,
                       Failure(copy2_error(fs, mounted, source_path, replica_path)))
    /\ UNCHANGED <<fs, mounted, log, queue, clock, sync_interval,
                   tick, fs0, log0, app0, seen, applied,
                   calls>>

\* variant: the replica is listed (line 93) while the loop of line 80 still
\* has entries to copy
ListReplica_Early ==
    /\ Running /\ Top.pc = "copy"
    /\ listdir_error(fs, mounted, Top.replica_folder) = "ok"
    /\ stack' = SetTop([Top EXCEPT
                          !.pc = "remove",
                          !.todo = Stale(listdir(fs, mounted, Top.replica_folder),
                                         Top.source_files)])
    /\ UNCHANGED <<fs, mounted, log, mode, fault, queue, clock, sync_interval,
                   tick, fs0, log0, app0, seen, applied,
                   calls>>

\* line 93: the replica is listed once the loop of line 80 is over
ListReplica ==
    /\ Running /\ Top.pc = "copy" /\ Top.todo = {}
    /\ listdir_error(fs, mounted, Top.replica_folder) = "ok"
    /\ stack' = SetTop([Top EXCEPT
                          !.pc = "remove",
                          !.todo = Stale(listdir(fs, mounted, Top.replica_folder),
                                         Top.source_files)])
    /\ UNCHANGED <<fs, mounted, log, mode, fault, queue, clock, sync_interval,
                   tick, fs0, log0, app0, seen, applied,
                   calls>>

\* line 93 when os.listdir raises: the replica folder is a file
ListReplicaRaises ==
    /\ Running /\ Top.pc = "copy" /\ Top.todo = {}
    /\ listdir_error(fs, mounted, Top.replica_folder) # "ok"
    /\ Crash("listdir", Top.replica_folder,
             listdir_error(fs, mounted, Top.replica_folder))
    /\ UNCHANGED <<fs, mounted, log, queue, clock, sync_interval,
                   tick, fs0, log0, app0, seen, applied,
                   calls>>

\* lines 96-98
RemoveDir ==
    /\ Running /\ Top.pc = "remove"
    /\ \E file_name \in Top.todo :
          LET file_path == join(Top.replica_folder, file_name)
          IN  /\ isdir(fs, mounted, file_path)
              /\ fs' = rmtree(fs, file_path)
              /\ log' = Append(log, Ev("remove-dir", file_path))
              /\ applied' = Append(applied, Ev("remove-dir", file_path))
              /\ stack' = SetTop([Top EXCEPT !.todo = @ \ {file_name}])
    /\ UNCHANGED <<mounted, mode, fault, queue, clock, sync_interval,
                   tick, fs0, log0, app0, seen,
                   calls>>

\* lines 99-101
RemoveFile ==
    /\ Running /\ Top.pc = "remove"
    /\ \E file_name \in Top.todo :
          LET file_path == join(Top.replica_folder, file_name)
          IN  /\ ~isdir(fs, mounted, file_path)
              /\ fs' = remove(fs, file_path)
              /\ log' = Append(log, Ev("remove-file", file_path))
              /\ applied' = Append(applied, Ev("remove-file", file_path))
              /\ stack' = SetTop([Top EXCEPT !.todo = @ \ {file_name}])
    /\ UNCHANGED <<mounted, mode, fault, queue, clock, sync_interval,
                   tick, fs0, log0, app0, seen,
                   calls>>

\* line 97 or line 100 when shutil.rmtree / os.remove raises
RemoveRaises ==
    /\ Running /\ Top.pc = "remove"
    /\ \E file_name \in Top.todo :
          LET file_path == join(Top.replica_folder, file_name)
          IN  Crash(IF isdir(fs, mounted, file_path) THEN "rmtree" ELSE "remove",
                    file_path, Failure("ok"))
    /\ UNCHANGED <<fs, mounted, log, queue, clock, sync_interval,
                   tick, fs0, log0, app0, seen, applied,
                   calls>>

\* the end of the function body: the call returns to line 84 or to line 122
Return ==
    /\ Running /\ Top.pc = "remove" /\ Top.todo = {}
    /\ stack' = Pop
    /\ UNCHANGED <<fs, mounted, log, mode, fault, queue, clock, sync_interval,
                   tick, fs0, log0, app0, seen, applied,
                   calls>>

----------------------------------------------------------------------------
(* periodic_sync and scheduler.run *)

\* scheduler.run: the first event is due; it is popped and periodic_sync is
\* called, whose line 122 calls sync_folders on the two root folders.
\* Time is measured from here on.
Fire ==
    /\ mode = "idle" /\ queue # <<>> /\ Head(queue) <= clock
    /\ tick < MaxTicks
    /\ queue' = [i \in 1..(Len(queue) - 1) |-> queue[i + 1] - clock]
    /\ clock' = 0
    /\ mode' = "tick"
    /\ stack' = Append(stack, Frame(source_root, replica_root))
    /\ tick' = tick + 1
    /\ fs0' = fs
    /\ log0' = Len(log)
    /\ app0' = Len(applied)
    /\ calls' = {source_root}
    /\ UNCHANGED <<fs, mounted, log, fault, sync_interval, seen, applied>>

\* scheduler.run: the first event is not due; delayfunc(time - now)
Sleep ==
    /\ mode = "idle" /\ queue # <<>> /\ Head(queue) > clock
    /\ clock' = Head(queue)
    /\ UNCHANGED <<fs, mounted, log, stack, mode, fault, queue, sync_interval,
                   tick, fs0, log0, app0, seen, applied,
                   calls>>

\* variant: periodic_sync does not wait for sync_folders to return
Complete_Early ==
    /\ mode = "tick"
    /\ log' = Append(log, Ev("complete", <<>>))
    /\ \E d \in 0..MaxDur :
          /\ clock' = clock + d
          /\ queue' = enter(queue, clock', sync_interval)
    /\ mode' = "idle"
    /\ UNCHANGED <<fs, mounted, stack, fault, sync_interval,
                   tick, fs0, log0, app0, seen, applied,
                   calls>>

\* variant: the event is entered before the call of line 122 as well as after it
Complete_Twice ==
    /\ mode = "tick" /\ stack = <<>>
    /\ log' = Append(log, Ev("complete", <<>>))
    /\ \E d \in 0..MaxDur :
          /\ clock' = clock + d
          /\ queue' = enter(enter(queue, 0, sync_interval), clock', sync_interval)
    /\ mode' = "idle"
    /\ UNCHANGED <<fs, mounted, stack, fault, sync_interval,
                   tick, fs0, log0, app0, seen, applied,
                   calls>>

\* lines 123-124, d seconds after the tick began
Complete ==
    /\ mode = "tick" /\ stack = <<>>
    /\ log' = Append(log, Ev("complete", <<>>))
    /\ \E d \in 0..MaxDur :
          /\ clock' = clock + d
          /\ queue' = enter(queue, clock', sync_interval)
    /\ mode' = "idle"
    /\ UNCHANGED <<fs, mounted, stack, fault, sync_interval,
                   tick, fs0, log0, app0, seen, applied,
                   calls>>

\* the environment, between two ticks: the source folder goes away or comes
\* back. sync_folders looks at the source only during a tick, so the change is
\* placed right before the next tick fires.
Unmount ==
    /\ mode = "idle" /\ 0 < tick /\ tick < MaxTicks
    /\ queue # <<>> /\ Head(queue) <= clock
    /\ mounted /\ mounted' = FALSE
    /\ UNCHANGED <<fs, log, stack, mode, fault, queue, clock, sync_interval,
                   tick, fs0, log0, app0, seen, applied,
                   calls>>

Mount ==
    /\ mode = "idle" /\ 0 < tick /\ tick < MaxTicks
    /\ queue # <<>> /\ Head(queue) <= clock
    /\ ~mounted /\ mounted' = TRUE
    /\ UNCHANGED <<fs, log, stack, mode, fault, queue, clock, sync_interval,
                   tick, fs0, log0, app0, seen, applied,
                   calls>>

Next ==
    \/ SourceMissing
    \/ EnsureReplica
    \/ MakedirsRaises
    \/ Recurse
    \/ CopyFile
    \/ CopyRaises
    \/ ListReplica
    \/ ListReplicaRaises
    \/ RemoveDir
    \/ RemoveFile
    \/ RemoveRaises
    \/ Return
    \/ Fire
    \/ Sleep
    \/ Complete
    \/ Unmount
    \/ Mount

Spec == Init /\ [][Next]_vars

\* the same program on small trees, over every kind of interval
SchedSpec == SchedInit /\ [][Next]_vars

----------------------------------------------------------------------------
(* Vocabulary of the properties *)

Src(q) == source_root \o q
Rep(q) == replica_root \o q

\* the lines logged since the latest tick began
TickLog == SubSeq(log, log0 + 1, Len(log))
Count(lines, op, path) ==
    Cardinality({i \in 1..Len(lines) : lines[i] = Ev(op, path)})
CountOp(lines, op) == Cardinality({i \in 1..Len(lines) : lines[i].op = op})
RemoveOps == {"remove-file", "remove-dir"}

\* the sync_folders call of the latest tick has looked at the source folder
Looked == tick >= 1 /\ Len(seen) = tick
\* ... and has returned to periodic_sync
CallDone == Looked /\ stack = <<>> /\ mode \in {"tick", "idle"}
\* ... on a source folder that exists
Synced == CallDone /\ seen[tick]

\* the tree below a root folder: relative path -> kind, the root included
TreeAt(f, root) ==
    [q \in {Rel(p) : p \in {r \in DOMAIN f : r[1] = root[1]}} |-> f[root \o q]]
ReplicaTree(f) == TreeAt(f, replica_root)
SourceTree(f) == TreeAt(f, source_root)

----------------------------------------------------------------------------
(* C1. Convergence: once a sync_folders call on an existing source folder has
   returned, the replica tree has exactly the paths of the source tree, each
   of the same kind and, for a file, of the same content. *)
C1_Convergence == Synced => ReplicaTree(fs) = SourceTree(fs)

(* C2. Idempotence: in a tick that follows a tick on the same existing source
   folder, the replica tree stays what the previous tick left and no
   create-directory, remove-file or remove-directory line is logged. *)
C2_Idempotence ==
    (Looked /\ tick >= 2 /\ seen[tick] /\ seen[tick - 1]) =>
        /\ ReplicaTree(fs) = ReplicaTree(fs0)
        /\ \A i \in 1..Len(TickLog) :
              TickLog[i].op \notin RemoveOps \cup {"create-dir"}

\* the second of two ticks is over, it copied, and the first had created a folder
C2_Witness ==
    /\ Synced /\ tick = 2 /\ seen[1] /\ mode = "idle"
    /\ CountOp(TickLog, "copy-file") >= 1
    /\ \E i \in 1..log0 : log[i].op = "create-dir"

(* C3. Missing source: a sync_folders call on a source folder that does not
   exist changes nothing in the file system, logs exactly one error line and
   returns to its caller. *)
C3_MissingSource ==
    (Looked /\ ~seen[tick]) =>
        /\ fs = fs0
        /\ Len(applied) = app0
        /\ mode # "crashed" /\ stack = <<>> /\ fault = NoFault
        /\ CountOp(TickLog, "error") = 1
        /\ Count(TickLog, "error", source_root) = 1
        /\ \A i \in 1..Len(TickLog) : TickLog[i].op \in {"error", "complete"}

\* the call has returned on a missing source, the replica holding entries
C3_Witness ==
    /\ Looked /\ ~seen[tick] /\ mode = "tick" /\ stack = <<>>
    /\ \E n \in Names : Kind(fs, Rep(<<n>>)) # NONE

----------------------------------------------------------------------------
\* the entries of the replica when the tick began, below the replica folder
Before == {p \in DOMAIN fs0 : UnderReplica(p) /\ Len(p) >= 2}
\* the source tree has an entry at the place of replica path p
InSource(p) == Src(Rel(p)) \in DOMAIN fs
\* the folder holding replica path p is a folder of the source tree too, so
\* sync_folders lists it (lines 77 and 93)
Visited(p) == Kind(fs, Src(Rel(dirname(p)))) = DIR
\* p is an entry that line 95 selects for removal
Extra(p) == Visited(p) /\ ~InSource(p)
Removals(lines) == {i \in 1..Len(lines) : lines[i].op \in RemoveOps}

(* C4. Deletion correctness: at every level sync_folders visits, a replica file
   whose name the source listing lacks is removed with exactly one
   remove-file line, an entry whose name the source listing holds is not
   removed, and nothing else goes than such entries and what lies beneath
   them. *)
C4_Deletion ==
    (Looked /\ seen[tick]) =>
        /\ \A p \in Before :
              (Visited(p) /\ InSource(p)) =>
                  /\ p \in DOMAIN fs
                  /\ \A i \in Removals(TickLog) : TickLog[i].path # p
        /\ \A p \in Before \ DOMAIN fs :
              \E r \in Before : IsPrefix(r, p) /\ Extra(r)
        /\ \A i \in 1..Len(TickLog) :
              TickLog[i].op = "remove-file" =>
                  LET p == TickLog[i].path
                  IN  /\ p \in Before /\ fs0[p] \in Contents /\ Extra(p)
                      /\ p \notin DOMAIN fs
                      /\ Count(TickLog, "remove-file", p) = 1
        /\ CallDone =>
              \A p \in Before :
                  (fs0[p] \in Contents /\ Extra(p)) =>
                      /\ p \notin DOMAIN fs
                      /\ Count(TickLog, "remove-file", p) = 1

\* the call has returned: one file went, its sibling of the source listing stayed
C4_Witness ==
    /\ Synced
    /\ \E p \in Before, k \in Before :
          /\ fs0[p] \in Contents /\ Extra(p) /\ p \notin DOMAIN fs
          /\ Count(TickLog, "remove-file", p) = 1
          /\ dirname(k) = dirname(p) /\ InSource(k) /\ k \in DOMAIN fs

(* C5. Directory removal: a replica folder whose name the source listing of its
   level lacks is removed with everything beneath it; the call logs exactly
   one remove-directory line, for the folder itself, and no remove line for
   anything beneath it. *)
C5_DirectoryRemoval ==
    /\ (Looked /\ seen[tick]) =>
          \A i \in 1..Len(TickLog) :
              TickLog[i].op = "remove-dir" =>
                  LET p == TickLog[i].path
                  IN  /\ p \in Before /\ fs0[p] = DIR /\ Extra(p)
                      /\ \A r \in DOMAIN fs : ~IsPrefix(p, r)
    /\ Synced =>
          \A p \in Before :
              (fs0[p] = DIR /\ Extra(p)) =>
                  /\ \A r \in DOMAIN fs : ~IsPrefix(p, r)
                  /\ Count(TickLog, "remove-dir", p) = 1
                  /\ \A i \in Removals(TickLog) :
                        IsPrefix(p, TickLog[i].path) =>
                            TickLog[i] = Ev("remove-dir", p)

\* the call has returned: a folder holding entries went
C5_Witness ==
    /\ Synced
    /\ \E p \in Before, r \in Before :
          /\ fs0[p] = DIR /\ Extra(p) /\ r # p /\ IsPrefix(p, r)
          /\ p \notin DOMAIN fs
          /\ Count(TickLog, "remove-dir", p) = 1

SourceFiles == {p \in DOMAIN fs : UnderSource(p) /\ fs[p] \in Contents}
SourceDirs == {p \in DOMAIN fs : UnderSource(p) /\ fs[p] = DIR}
\* the source folders that had nothing at their place in the replica
Uncreated == {p \in SourceDirs : Rep(Rel(p)) \notin DOMAIN fs0}

(* C6. Event counts: a sync_folders call that returns on an existing source
   logs exactly one copy-file line per file of the source tree, exactly one
   create-directory line per source folder that had no counterpart in the
   replica before the call, and no remove line when the replica held no
   entry that the source lacks. *)
C6_EventCounts ==
    Synced =>
        /\ \A p \in SourceFiles : Count(TickLog, "copy-file", Rep(Rel(p))) = 1
        /\ CountOp(TickLog, "copy-file") = Cardinality(SourceFiles)
        /\ \A p \in SourceDirs :
              Count(TickLog, "create-dir", Rep(Rel(p))) =
                  (IF p \in Uncreated THEN 1 ELSE 0)
        /\ CountOp(TickLog, "create-dir") = Cardinality(Uncreated)
        /\ (\A p \in Before : InSource(p)) => Removals(TickLog) = {}

\* the call has returned: it created a folder below the replica folder and
\* copied a file into it
C6_Witness ==
    /\ Synced
    /\ \E p \in SourceFiles :
          /\ Len(p) >= 3 /\ dirname(p) \in Uncreated
          /\ Count(TickLog, "create-dir", Rep(Rel(dirname(p)))) = 1
          /\ Count(TickLog, "copy-file", Rep(Rel(p))) = 1

(* C7. Frame: no step ever changes the source tree, and while a tick runs the
   source folder stays reachable or unreachable as it was; every operation
   that took effect is on a path under the replica folder. *)
C7_Frame ==
    [][/\ SourceTree(fs') = SourceTree(fs)
       /\ (mode = "tick" => mounted' = mounted)
       /\ \A i \in 1..Len(applied') : UnderReplica(applied'[i].path)]_vars

\* the second tick has returned and the two ticks have changed the replica
C7_Witness ==
    /\ Synced /\ tick = 2 /\ seen[1]
    /\ app0 > 0 /\ Len(applied) > app0

(* C8. Per-entry error isolation: when copying or removing one entry fails, the
   call and the tick are not aborted and the process goes on to the next
   sibling. *)
C8_ErrorIsolation ==
    fault.op \in {"copy", "remove", "rmtree"} => mode # "crashed"

(* C9. Every failure is logged exactly once: a failure during a tick leaves
   exactly one error line in the log, naming the path. *)
C9_FailureLogged ==
    /\ (Looked /\ ~seen[tick]) => Count(TickLog, "error", source_root) = 1
    /\ fault # NoFault => Count(TickLog, "error", fault.path) = 1

RootCalls ==
    Cardinality({i \in 1..Len(stack) : stack[i].source_folder = source_root})
Markers == CountOp(log, "complete")

(* C10. No overlapping ticks: at most one top-level sync_folders call is active
   at any time, and a tick begins only after the call and the completion
   marker of the tick before it. *)
C10_NoOverlap ==
    /\ RootCalls <= 1
    /\ mode = "idle" => (stack = <<>> /\ Markers = tick)
    /\ mode = "tick" => Markers = tick - 1
    /\ mode = "crashed" => Markers = tick - 1

\* the second tick is running, two calls deep, the event having been due at once
C10_Witness ==
    /\ tick = 2 /\ mode = "tick" /\ Len(stack) = 2 /\ RootCalls = 1 /\ Markers = 1
    /\ sync_interval = 0

----------------------------------------------------------------------------
\* a step that starts tick n+1, n >= 1: `clock` is then the time since tick n began
NextTickFires == tick >= 1 /\ tick' = tick + 1
\* the duration of the latest tick: line 124 queued the event at its end
Duration == Head(queue) - sync_interval

(* C11. Tick cadence: tick n+1 fires sync_interval seconds after the start of
   tick n: a tick of duration d < sync_interval is followed by the next tick
   sync_interval seconds after its start, a tick of duration
   d >= sync_interval by the next tick right at its end, with no sleep. *)
C11_Cadence ==
    [][NextTickFires =>
          clock = (IF Duration < sync_interval THEN sync_interval ELSE Duration)]_vars

(* C11, amended. Tick n+1 fires sync_interval seconds after the completion of
   tick n: line 124 queues the event at the time of its call plus
   sync_interval, the scheduler sleeps exactly sync_interval seconds when that
   is positive and not at all otherwise, so the distance from start to start
   is the duration of the tick plus the positive part of sync_interval. *)
C11_CadenceFromCompletion ==
    [][/\ (mode = "tick" /\ mode' = "idle") =>
              queue' = <<clock' + sync_interval>>
       /\ (mode = "idle" /\ mode' = "idle" /\ clock' # clock) =>
              (sync_interval > 0 /\ clock' - clock = sync_interval)
       /\ NextTickFires =>
              clock = Duration + (IF sync_interval > 0 THEN sync_interval ELSE 0)]_vars

\* a tick took at least sync_interval seconds and the scheduler has slept all the same
C11_Witness ==
    /\ mode = "idle" /\ tick >= 1 /\ sync_interval > 0 /\ queue # <<>>
    /\ Duration >= sync_interval
    /\ clock = Head(queue)

----------------------------------------------------------------------------
(* C12. No terminal state: after every tick, whatever happened inside it
   (a failing copy or removal included), the process has not ended and a next
   tick is scheduled. *)
C12_NoTerminalState ==
    /\ mode # "crashed"
    /\ mode = "idle" => queue # <<>>

(* C13. SourceMissing is fatal only for its tick: a tick on a missing source
   folder logs the error, applies no operation and does not end the process,
   the next tick is scheduled, and when that tick finds the source folder
   again its call leaves the replica a mirror of the source. *)
C13_SourceMissingOnlyItsTick ==
    /\ (Looked /\ ~seen[tick]) =>
          /\ Count(TickLog, "error", source_root) = 1
          /\ Len(applied) = app0
          /\ mode # "crashed"
          /\ mode = "idle" => queue # <<>>
    /\ (tick >= 2 /\ Synced /\ ~seen[tick - 1]) =>
          ReplicaTree(fs) = SourceTree(fs)

(* C14. Interval validation: no tick, hence no sync_folders call, ever runs
   with a sync interval that is zero or negative. *)
C14_IntervalValidated == tick >= 1 => sync_interval > 0

----------------------------------------------------------------------------
\* the calls in progress before and after a step, from the outermost one
Levels == 1..(IF Len(stack) <= Len(stack') THEN Len(stack) ELSE Len(stack'))
\* the line a step appends to the log, if it appends one
Logged == IF Len(log') = Len(log) + 1 THEN {log'[Len(log')]} ELSE {}

(* C15. Ordering within a directory level: in every sync_folders call the
   replica folder exists from the moment the children are processed, and is a
   directory whenever a child is copied into it; the source listing is read
   once and never changes afterwards; the replica is listed for the removals
   only by the innermost call, once every entry of its source listing has
   been copied or recursed into and those calls have returned, and is listed
   once; so, in the log of a tick, no copy or directory creation below a
   folder follows a removal made at the level of that folder. *)
C15_LevelOrdering ==
    [][/\ \A i \in 1..Len(stack') :
             /\ stack'[i].pc # "start" =>
                    exists(fs', mounted', stack'[i].replica_folder)
             /\ i < Len(stack') => stack'[i].pc = "copy"
       /\ \A e \in Logged :
             /\ e.op = "copy-file" => isdir(fs, mounted, dirname(e.path))
             /\ e.op \in {"copy-file", "create-dir"} =>
                    \A i \in 1..Len(TickLog) :
                       TickLog[i].op \in RemoveOps =>
                           ~IsPrefix(dirname(TickLog[i].path), e.path)
       /\ \A i \in Levels :
             /\ stack[i].pc # "start" =>
                    /\ stack'[i].pc # "start"
                    /\ stack'[i].source_files = stack[i].source_files
             /\ stack[i].pc = "remove" =>
                    /\ stack'[i].pc = "remove"
                    /\ stack'[i].todo \subseteq stack[i].todo
             /\ (stack[i].pc = "copy" /\ stack'[i].pc = "remove") =>
                    /\ i = Len(stack) /\ i = Len(stack')
                    /\ stack[i].todo = {}
                    /\ stack'[i].todo =
                           listdir(fs, mounted, stack[i].replica_folder)
                               \ stack[i].source_files]_vars

\* a rename-like change: the source has b where the replica had a, and the call
\* has copied b and then removed a
C15_Witness ==
    /\ CallDone
    /\ Kind(fs0, Rep(<<"a">>)) \notin {NONE, DIR} /\ Kind(fs0, Rep(<<"b">>)) = NONE
    /\ \E i, j \in 1..Len(TickLog) :
          /\ i < j
          /\ TickLog[i] = Ev("copy-file", Rep(<<"b">>))
          /\ TickLog[j] = Ev("remove-file", Rep(<<"a">>))

----------------------------------------------------------------------------
\* the lines that report an operation on the replica
SuccessOps == {"create-dir", "copy-file", "remove-file", "remove-dir"}

(* C16. Log/operation correspondence: in every reachable state, the states
   after a failing operation included, the log holds as many create-directory,
   copy-file, remove-file and remove-directory lines as operations of that
   kind have taken effect: no such line stands for an operation that did not
   take effect. *)
C16_LogMatchesOperations ==
    \A op \in SuccessOps : CountOp(log, op) = CountOp(applied, op)

----------------------------------------------------------------------------
(* C17. Completion marker: the first tick is due at startup, with no sleep
   before it; a tick logs no marker while its sync_folders call runs and
   exactly one, the last line of the tick, once the call has returned; the
   next tick is queued only with the marker logged; in the log the lines of a
   tick come before its marker and the marker of tick n is the line right
   before the first line of tick n+1. *)
C17_CompletionMarker ==
    /\ tick = 0 =>
          /\ log = <<>> /\ clock = 0
          /\ queue # <<>> /\ Head(queue) <= clock
    /\ tick >= 1 =>
          /\ Cardinality({i \in 1..log0 : log[i].op = "complete"}) = tick - 1
          /\ tick >= 2 => (log0 >= 1 /\ log[log0].op = "complete")
          /\ \A i \in 1..Len(TickLog) :
                TickLog[i].op = "complete" =>
                    i = Len(TickLog) /\ mode = "idle" /\ stack = <<>>
          /\ mode = "idle" =>
                (TickLog # <<>> /\ TickLog[Len(TickLog)].op = "complete")
          /\ queue # <<>> => CountOp(TickLog, "complete") = 1

\* two ticks are over, each with lines of its own before its marker
C17_Witness ==
    /\ tick = 2 /\ mode = "idle"
    /\ log0 >= 2 /\ Len(TickLog) >= 2
    /\ Markers = 2

----------------------------------------------------------------------------
(* A variant function for sync_folders: a bound on the steps left in the tick *)

\* the most steps one call takes at its own level: lines 67-77, one per entry of
\* the source listing, line 93, one per removal, the return
PerCall == 3 + 2 * Cardinality(Names)

\* what is left of a call in progress, at its own level
Rest(fr) ==
    IF fr.pc = "start" THEN PerCall
    ELSE IF fr.pc = "copy" THEN 2 + Cardinality(Names) + Cardinality(fr.todo)
    ELSE 1 + Cardinality(fr.todo)

RECURSIVE RestUpTo(_)
RestUpTo(k) == IF k = 0 THEN 0 ELSE Rest(stack[k]) + RestUpTo(k - 1)

\* the folders of the source tree, the source folder itself included
SourceFolders == {p \in DOMAIN fs : UnderSource(p) /\ fs[p] = DIR}

\* the calls in progress, and a whole call for every folder of the source tree
\* that sync_folders has not been called on in this tick
Measure == RestUpTo(Len(stack)) + PerCall * Cardinality(SourceFolders \ calls)

(* C18. Termination: every step of a running sync_folders call lowers a
   natural-number bound on the steps left, and some step is always possible,
   so the call ends, and ends by returning to periodic_sync unless a file
   system operation raised; a recursive call is made only on a subdirectory
   of the caller's source folder that the tick has not been called on yet,
   and when the root call has returned normally the calls of the tick were
   made on exactly the folders of the source tree, each once. *)
C18_Termination ==
    [][/\ Running =>
             /\ ENABLED Next
             /\ Measure' < Measure /\ Measure' >= 0
             /\ (stack' = <<>> /\ mode' = "crashed") => fault' # NoFault
       /\ (Running /\ Len(stack') > Len(stack)) =>
             LET new == stack'[Len(stack')]
             IN  /\ new.source_folder \notin calls
                 /\ isdir(fs, mounted, new.source_folder)
                 /\ dirname(new.source_folder) = Top.source_folder
                 /\ dirname(new.replica_folder) = Top.replica_folder
                 /\ basename(new.replica_folder) = basename(new.source_folder)
       /\ Synced' => calls' = SourceFolders']_vars

\* the call on a source tree two folders deep has returned
C18_Witness ==
    /\ Synced /\ mode = "tick"
    /\ Kind(fs, Src(<<"a", "b">>)) = DIR
    /\ Cardinality(calls) = 3

----------------------------------------------------------------------------
(* C19. The scheduler queue never holds more than one pending periodic_sync
   event: exactly one between two ticks, none while a tick runs. *)
C19_QueueAtMostOne ==
    /\ Len(queue) <= 1
    /\ mode = "idle" => Len(queue) = 1
    /\ mode = "tick" => Len(queue) = 0

\* between the first two ticks: the one event is queued and not yet due
C19_Witness ==
    /\ mode = "idle" /\ tick = 1
    /\ Len(queue) = 1 /\ Head(queue) > clock

====
